---------------------------- MODULE Spec2Model ----------------------------
(***************************************************************************)
(* A model of keras-retinanet's model assembly                             *)
(* (keras_retinanet/models/retinanet.py) and of the inference graph it     *)
(* wires: RetinaNet builds the trainable graph, retinanet_bbox puts the    *)
(* anchor generator, the box decoder and the detection filter on top.      *)
(*                                                                         *)
(* Python objects are records; the identity of an object (a keras model or *)
(* layer instance, whose weights are its own) is its "id" field.  Python   *)
(* strings are sequences of one-character strings, so that startswith and  *)
(* iteration over a string do what Python does.  Scores, thresholds and    *)
(* IoU are in hundredths.                                                  *)
(***************************************************************************)
EXTENDS Integers, Sequences, FiniteSets, TLC

VARIABLES
    pc,                 \* where the construction stands: "start", "base", "bbox", "ran", "error"
    call,               \* the arguments of the last constructor call
    model,              \* the base (trainable) model, or NoModel
    prediction_model,   \* the inference model, or NoModel
    error,              \* the exception a constructor raised, or "none"
    run,                \* the shapes of one forward pass through prediction_model
    predict             \* the values of one forward pass: anchors, deltas, scores, detections

vars == <<pc, call, model, prediction_model, error, run, predict>>

-----------------------------------------------------------------------------
(* Bounds of the model.                                                    *)

\* the longest caller-supplied list of submodels
MaxSubmodels == 3
\* the largest side of a backbone feature map (C3)
MaxSide == 2
\* the largest number of ratios, and of scales, of an AnchorParameters
MaxRatios == 2
\* the most anchors of one image in the value model
MaxAnchors == 3
\* the largest max_detections asked for in the value model
MaxDet == 3
\* the largest regression delta, in anchor extents
MaxDelta == 1
\* the most GPUs asked for with --multi-gpu
MaxGpus == 2
\* the largest --batch-size
MaxBatch == 2

\* the number of pyramid levels: retinanet_bbox reads P3..P7
NumLevels == 5
\* RetinaNet's default num_anchors
DefaultNumAnchors == 9
\* the pyramid feature size the heads expect
PyramidFeatureSize == 256

NoModel == [kind |-> "NoModel"]
NoCall  == [fn |-> "none"]
NoRun   == [kind |-> "NoRun"]
NoPredict == [kind |-> "NoPredict"]

RECURSIVE Flatten(_)
Flatten(ss) == IF ss = <<>> THEN <<>> ELSE ss[1] \o Flatten(Tail(ss))

-----------------------------------------------------------------------------
(* Python values of the `submodels` argument.                              *)

Str_joint           == <<"j","o","i","n","t">>
Str_joint_submodels == <<"j","o","i","n","t","_","s","u","b","m","o","d","e","l","s">>
Str_join            == <<"j","o","i","n">>
Str_default         == <<"d","e","f","a","u","l","t">>

PyNone      == [type |-> "NoneType"]
PyStr(s)    == [type |-> "str", value |-> s]
PyList(l)   == [type |-> "list", value |-> l]

\* str.startswith(prefix)
StartsWith(s, prefix) ==
    /\ Len(s) >= Len(prefix)
    /\ SubSeq(s, 1, Len(prefix)) = prefix

-----------------------------------------------------------------------------
(* Results of a Python call: a value, or the exception it raised.          *)

Ok(v)     == [ok |-> TRUE,  value |-> v, error |-> "none"]
Raise(e)  == [ok |-> FALSE, value |-> NoModel, error |-> e]

-----------------------------------------------------------------------------
(* The submodel factories.  A submodel is a keras.models.Model: `id` is    *)
(* the object's identity, `weights` the weights of its layers (each owned  *)
(* by the model instance that created the layer), `filters` the channels   *)
(* of its last Conv2D, `row` the row width of its Reshape((-1, row)), and  *)
(* `evaluates` the nested models one call of it runs, in order.            *)

\* the weights of the Conv2D layers named prefix_0 .. prefix_{n-1}, one per feature size
ConvStack(owner, prefix, feature_sizes) ==
    {[owner |-> owner, layer |-> prefix, idx |-> i] : i \in 0..(Len(feature_sizes) - 1)}

\* the weights of the final Conv2D, named prefix
FinalConv(owner, prefix) == {[owner |-> owner, layer |-> prefix, idx |-> -1]}

\* a faulty default_classification_model: rows of num_anchors, not of num_classes
default_classification_model_rows(num_classes, num_anchors, feature_sizes) ==
    LET id == <<"classification_submodel", 0>> IN
    [ name      |-> "classification_submodel",
      id        |-> id,
      in_ch     |-> PyramidFeatureSize,
      filters   |-> num_classes * num_anchors,
      row       |-> num_anchors,
      activation |-> "sigmoid",
      evaluates |-> <<id>>,
      weights   |-> ConvStack(id, "pyramid_classification", feature_sizes)
                    \cup FinalConv(id, "pyramid_classification") ]

default_classification_model(num_classes, num_anchors, feature_sizes) ==
    LET id == <<"classification_submodel", 0>> IN
    [ name      |-> "classification_submodel",
      id        |-> id,
      in_ch     |-> PyramidFeatureSize,
      filters   |-> num_classes * num_anchors,
      row       |-> num_classes,
      activation |-> "sigmoid",
      evaluates |-> <<id>>,
      weights   |-> ConvStack(id, "pyramid_classification", feature_sizes)
                    \cup FinalConv(id, "pyramid_classification") ]

default_regression_model(num_anchors, feature_sizes) ==
    LET id == <<"regression_submodel", 0>> IN
    [ name      |-> "regression_submodel",
      id        |-> id,
      in_ch     |-> PyramidFeatureSize,
      filters   |-> num_anchors * 4,
      row       |-> 4,
      activation |-> "linear",
      evaluates |-> <<id>>,
      weights   |-> ConvStack(id, "pyramid_regression", feature_sizes)
                    \cup FinalConv(id, "pyramid_regression") ]

\* the common trunk: num_anchors is accepted and not used
CommonPFModel(num_anchors, feature_sizes, coordconv) ==
    LET id == <<"common_submodel", 0>> IN
    [ name      |-> "common_submodel",
      id        |-> id,
      in_ch     |-> PyramidFeatureSize,
      coordconv |-> coordconv,
      evaluates |-> <<id>>,
      weights   |-> ConvStack(id, "pyramid_joint", feature_sizes) ]

RegrModel(num_anchors, feature_sizes, pyramid_feature_size) ==
    LET id == <<"regression_submodel", 0>> IN
    [ name      |-> "regression_submodel",
      id        |-> id,
      in_ch     |-> pyramid_feature_size,
      filters   |-> num_anchors * 4,
      row       |-> 4,
      activation |-> "linear",
      evaluates |-> <<id>>,
      weights   |-> ConvStack(id, "pyramid_regression", feature_sizes)
                    \cup FinalConv(id, "pyramid_regression") ]

ClassModel(num_classes, num_anchors, feature_sizes, pyramid_feature_size) ==
    LET id == <<"classification_submodel", 0>> IN
    [ name      |-> "classification_submodel",
      id        |-> id,
      in_ch     |-> pyramid_feature_size,
      filters   |-> num_classes * num_anchors,
      row       |-> num_classes,
      activation |-> "sigmoid",
      evaluates |-> <<id>>,
      weights   |-> ConvStack(id, "pyramid_classification", feature_sizes)
                    \cup FinalConv(id, "pyramid_classification") ]

\* keras.Model(inputs=inputs, outputs=head(common(inputs)), name=name)
JointHead(name, common, head) ==
    [ name      |-> name,
      id        |-> <<name, 0>>,
      in_ch     |-> common.in_ch,
      filters   |-> head.filters,
      row       |-> head.row,
      activation |-> head.activation,
      evaluates |-> <<common.id, head.id>>,
      weights   |-> common.weights \cup head.weights ]

joint_submodels(num_classes, num_anchors, common_feature_sizes, class_feature_sizes, regr_feature_sizes, coordconv) ==
    IF common_feature_sizes = <<>>
    THEN Raise("IndexError")         \* common_feature_sizes[-1] of an empty list
    ELSE
      LET last   == common_feature_sizes[Len(common_feature_sizes)]
          common == CommonPFModel(num_classes, common_feature_sizes, coordconv)
          regr   == RegrModel(num_anchors, regr_feature_sizes, last)
          class  == ClassModel(num_classes, num_anchors, class_feature_sizes, last)
      IN Ok(<< <<"regression",     JointHead("regr_model", common, regr)>>,
               <<"classification", JointHead("class_model", common, class)>> >>)

\* a faulty default_submodels: the classification submodel listed first
default_submodels_swapped(num_classes, num_anchors, class_feature_sizes, regr_feature_sizes) ==
    << <<"classification", default_classification_model(num_classes, num_anchors,
                                                        class_feature_sizes)>>,
       <<"regression",     default_regression_model(num_anchors, regr_feature_sizes)>> >>

default_submodels(num_classes, num_anchors, class_feature_sizes, regr_feature_sizes) ==
    << <<"regression",     default_regression_model(num_anchors, regr_feature_sizes)>>,
       <<"classification", default_classification_model(num_classes, num_anchors,
                                                        class_feature_sizes)>> >>

\* keras.models.clone_model: the same architecture in a new object with new weights;
\* `n` tells the clones of one model apart
clone_model(m, n) ==
    LET reown(id) == <<id[1], n>> IN
    [ m EXCEPT !.id = reown(m.id),
               !.evaluates = [i \in 1..Len(m.evaluates) |-> reown(m.evaluates[i])],
               !.weights = {[w EXCEPT !.owner = reown(w.owner)] : w \in m.weights} ]

-----------------------------------------------------------------------------
(* The pyramid.                                                            *)

FeatureNames == <<"P3", "P4", "P5", "P6", "P7">>

\* the name of the output tensor of one submodel on one feature: a tensor is
\* known by the model instance applied and the feature it was applied to
Applied(mo, f) == [model |-> mo, feature |-> f]

\* __build_model_pyramid: the Concatenate over the levels, named `name`
build_model_pyramid(name, m, features, share) ==
    IF share
    THEN [ name |-> name, op |-> "Concatenate",
           inputs |-> [i \in 1..Len(features) |-> Applied(m, features[i])] ]
    ELSE LET new == TRUE       \* set once before the loop, never cleared
             mo(i) == IF new THEN m ELSE clone_model(m, i)
         IN [ name |-> name, op |-> "Concatenate",
              inputs |-> [i \in 1..Len(features) |-> Applied(mo(i), features[i])] ]

\* what `for item in v` yields: the elements of a list, the one-character
\* strings of a str (each a sequence of length 1)
Items(v) ==
    IF v.type = "str" THEN [i \in 1..Len(v.value) |-> <<v.value[i]>>] ELSE v.value

\* _build_pyramid: `for n, m in models`; a pair unpacks, a one-character string does not
build_pyramid(models, features, share) ==
    LET items == Items(models) IN
    IF \E i \in 1..Len(items) : Len(items[i]) # 2
    THEN Raise("ValueError")
    ELSE Ok([i \in 1..Len(items) |->
                build_model_pyramid(items[i][1], items[i][2], features, share)])

\* a faulty _create_pyramid_features: the maps are refined first, and the refined
\* maps are upsampled and merged
create_pyramid_features_refined ==
    << [name |-> "C5_reduced",   op |-> "Conv2D", kernel |-> 1, strides |-> 1, inputs |-> <<"C5">>],
       [name |-> "P5",           op |-> "Conv2D", kernel |-> 3, strides |-> 1, inputs |-> <<"C5_reduced">>],
       [name |-> "P5_upsampled", op |-> "UpsampleLike", kernel |-> 0, strides |-> 1, inputs |-> <<"P5", "C4">>],
       [name |-> "C4_reduced",   op |-> "Conv2D", kernel |-> 1, strides |-> 1, inputs |-> <<"C4">>],
       [name |-> "P4_merged",    op |-> "Add", kernel |-> 0, strides |-> 1, inputs |-> <<"P5_upsampled", "C4_reduced">>],
       [name |-> "P4",           op |-> "Conv2D", kernel |-> 3, strides |-> 1, inputs |-> <<"P4_merged">>],
       [name |-> "P4_upsampled", op |-> "UpsampleLike", kernel |-> 0, strides |-> 1, inputs |-> <<"P4", "C3">>],
       [name |-> "C3_reduced",   op |-> "Conv2D", kernel |-> 1, strides |-> 1, inputs |-> <<"C3">>],
       [name |-> "P3_merged",    op |-> "Add", kernel |-> 0, strides |-> 1, inputs |-> <<"P4_upsampled", "C3_reduced">>],
       [name |-> "P3",           op |-> "Conv2D", kernel |-> 3, strides |-> 1, inputs |-> <<"P3_merged">>],
       [name |-> "P6",           op |-> "Conv2D", kernel |-> 3, strides |-> 2, inputs |-> <<"C5">>],
       [name |-> "C6_relu",      op |-> "Activation", kernel |-> 0, strides |-> 1, inputs |-> <<"P6">>],
       [name |-> "P7",           op |-> "Conv2D", kernel |-> 3, strides |-> 2, inputs |-> <<"C6_relu">>] >>

\* _create_pyramid_features: the layers in the order they are created; `inputs`
\* names the layers (or backbone maps) a layer is called on
create_pyramid_features ==
    << [name |-> "C5_reduced",   op |-> "Conv2D", kernel |-> 1, strides |-> 1, inputs |-> <<"C5">>],
       [name |-> "P5_upsampled", op |-> "UpsampleLike", kernel |-> 0, strides |-> 1, inputs |-> <<"C5_reduced", "C4">>],
       [name |-> "P5",           op |-> "Conv2D", kernel |-> 3, strides |-> 1, inputs |-> <<"C5_reduced">>],
       [name |-> "C4_reduced",   op |-> "Conv2D", kernel |-> 1, strides |-> 1, inputs |-> <<"C4">>],
       [name |-> "P4_merged",    op |-> "Add", kernel |-> 0, strides |-> 1, inputs |-> <<"P5_upsampled", "C4_reduced">>],
       [name |-> "P4_upsampled", op |-> "UpsampleLike", kernel |-> 0, strides |-> 1, inputs |-> <<"P4_merged", "C3">>],
       [name |-> "P4",           op |-> "Conv2D", kernel |-> 3, strides |-> 1, inputs |-> <<"P4_merged">>],
       [name |-> "C3_reduced",   op |-> "Conv2D", kernel |-> 1, strides |-> 1, inputs |-> <<"C3">>],
       [name |-> "P3_merged",    op |-> "Add", kernel |-> 0, strides |-> 1, inputs |-> <<"P4_upsampled", "C3_reduced">>],
       [name |-> "P3",           op |-> "Conv2D", kernel |-> 3, strides |-> 1, inputs |-> <<"P3_merged">>],
       [name |-> "P6",           op |-> "Conv2D", kernel |-> 3, strides |-> 2, inputs |-> <<"C5">>],
       [name |-> "C6_relu",      op |-> "Activation", kernel |-> 0, strides |-> 1, inputs |-> <<"P6">>],
       [name |-> "P7",           op |-> "Conv2D", kernel |-> 3, strides |-> 2, inputs |-> <<"C6_relu">>] >>

\* the weights of a list of layers: only Conv2D layers have any
LayerWeights(layers) ==
    {[owner |-> <<"retinanet", 0>>, layer |-> layers[i].name, idx |-> -1] :
        i \in {j \in 1..Len(layers) : layers[j].op = "Conv2D"}}

\* the weights of the backbone the caller built `inputs` and `backbone_layers` from
BackboneWeights == {[owner |-> <<"backbone", 0>>, layer |-> "backbone", idx |-> -1]}

\* the submodel graphs run when the outputs are computed: every application mo(f)
\* runs all the layers of mo, from its own Input to its output, on f
Evaluations(outputs) ==
    Flatten([o \in 1..Len(outputs) |->
        Flatten([l \in 1..Len(outputs[o].inputs) |->
            [k \in 1..Len(outputs[o].inputs[l].model.evaluates) |->
                [ instance |-> outputs[o].inputs[l].model.evaluates[k],
                  feature  |-> outputs[o].inputs[l].feature,
                  output   |-> outputs[o].name ]]])])

-----------------------------------------------------------------------------
(* RetinaNet: the trainable graph.                                         *)

\* the weights behind one tensor: those of the submodel instances it applies
TensorWeights(t) ==
    IF "inputs" \notin DOMAIN t THEN {}
    ELSE UNION {IF "model" \in DOMAIN t.inputs[l] THEN t.inputs[l].model.weights ELSE {} :
                  l \in 1..Len(t.inputs)}

\* the weights of the submodel instances the outputs apply
AppliedWeights(outputs) == UNION {TensorWeights(outputs[i]) : i \in 1..Len(outputs)}

\* keras.models.Model(inputs=inputs, outputs=pyramids, name=name)
BaseModel(num_anchors, kw, pyramids) ==
    [ kind        |-> "Model",
      name        |-> "retinanet",
      inputs      |-> <<"input_1">>,
      outputs     |-> pyramids,
      layers      |-> create_pyramid_features,
      num_classes |-> kw.num_classes,
      num_anchors |-> num_anchors,
      weights     |-> BackboneWeights \cup LayerWeights(create_pyramid_features)
                      \cup AppliedWeights(pyramids) ]

\* the `submodels` the pyramid is built from
ResolveSubmodels(num_anchors, kw) ==
    IF kw.submodels.type = "NoneType"
    THEN Ok(PyList(default_submodels(kw.num_classes, num_anchors,
                                     kw.class_feature_sizes, kw.regr_feature_sizes)))
    ELSE IF kw.submodels.type # "str"
    THEN Raise("AttributeError")     \* a list has no startswith
    ELSE IF StartsWith(kw.submodels.value, Str_joint)
    THEN LET j == joint_submodels(kw.num_classes, num_anchors, kw.common_feature_sizes,
                                  kw.class_feature_sizes, kw.regr_feature_sizes,
                                  kw.coordconv)
         IN IF j.ok THEN Ok(PyList(j.value)) ELSE j
    ELSE Ok(kw.submodels)

RetinaNet(num_anchors, kw) ==
    LET submodels == ResolveSubmodels(num_anchors, kw) IN
    IF ~submodels.ok THEN submodels
    ELSE LET pyramids == build_pyramid(submodels.value, FeatureNames, kw.share_rpn) IN
         IF ~pyramids.ok THEN pyramids
         ELSE Ok(BaseModel(num_anchors, kw, pyramids.value))

-----------------------------------------------------------------------------
(* AnchorParameters and retinanet_bbox: the inference graph.               *)

\* AnchorParameters(sizes, strides, ratios, scales): the four lists, kept as given
AnchorParameters(sizes, strides, ratios, scales) ==
    [sizes |-> sizes, strides |-> strides, ratios |-> ratios, scales |-> scales]

num_anchors(anchor_parameters) ==
    Len(anchor_parameters.ratios) * Len(anchor_parameters.scales)

\* __build_anchors: one Anchors layer per feature, sizes[i] and strides[i] read by index
build_anchors(anchor_parameters, features) ==
    IF \/ Len(anchor_parameters.sizes) < Len(features)
       \/ Len(anchor_parameters.strides) < Len(features)
    THEN Raise("IndexError")
    ELSE Ok([i \in 1..Len(features) |->
               [ name    |-> <<"anchors", i - 1>>,
                 op      |-> "Anchors",
                 size    |-> anchor_parameters.sizes[i],
                 stride  |-> anchor_parameters.strides[i],
                 ratios  |-> anchor_parameters.ratios,
                 scales  |-> anchor_parameters.scales,
                 feature |-> features[i] ]])

\* the filter arguments retinanet_bbox has by default
DefaultFilterArgs ==
    [ nms |-> TRUE, class_specific_filter |-> TRUE, score_threshold |-> 5,
      max_detections |-> 300, nms_threshold |-> 50 ]

\* a faulty FilterConfig: max_detections is not passed on, the layer keeps its default
FilterConfig_max_default(a) ==
    [ nms                   |-> a.nms,
      class_specific_filter |-> a.class_specific_filter,
      score_threshold       |-> a.score_threshold,
      max_detections        |-> DefaultFilterArgs.max_detections,
      nms_threshold         |-> a.nms_threshold ]

\* a faulty FilterConfig: nms_threshold is not passed on, the layer keeps its default
FilterConfig_nms_default(a) ==
    [ nms                   |-> a.nms,
      class_specific_filter |-> a.class_specific_filter,
      score_threshold       |-> a.score_threshold,
      max_detections        |-> a.max_detections,
      nms_threshold         |-> DefaultFilterArgs.nms_threshold ]

\* the keyword arguments the FilterDetections layer is created with
FilterConfig(a) ==
    [ nms                   |-> a.nms,
      class_specific_filter |-> a.class_specific_filter,
      score_threshold       |-> a.score_threshold,
      max_detections        |-> a.max_detections,
      nms_threshold         |-> a.nms_threshold ]

\* a copy of a model: the same graph on new submodel instances
CopyOfModel(m) ==
    LET copy(t) == [t EXCEPT !.inputs =
                       [l \in 1..Len(t.inputs) |->
                           Applied(clone_model(t.inputs[l].model, 1), t.inputs[l].feature)]]
        outputs == [o \in 1..Len(m.outputs) |-> copy(m.outputs[o])]
    IN [m EXCEPT !.outputs = outputs,
                 !.weights = BackboneWeights \cup LayerWeights(m.layers)
                             \cup AppliedWeights(outputs)]

\* a faulty BboxBase: the model given is copied, the inference graph built on the copy
BboxBase_copy(a) ==
    IF a.model = NoModel
    THEN RetinaNet(num_anchors(a.anchor_parameters), a.kwargs)
    ELSE Ok(CopyOfModel(a.model))

\* the base model retinanet_bbox builds on: the one given, or a new RetinaNet
BboxBase(a) ==
    IF a.model = NoModel
    THEN RetinaNet(num_anchors(a.anchor_parameters), a.kwargs)
    ELSE Ok(a.model)

\* the tensor the Concatenate layer named 'anchors' puts out
AnchorsTensor(anchor_layers) ==
    [name |-> "anchors", op |-> "Concatenate", inputs |-> anchor_layers]

\* a tensor the graph holds that is no output of a submodel
Tensor(name) == [name |-> name]

\* a faulty BoxesInputs: the two inputs of RegressBoxes in the wrong order
BoxesInputs_swapped(m, anchors) == <<m.outputs[1], anchors>>

\* the inputs of RegressBoxes: [anchors, regression]
BoxesInputs(m, anchors) == <<anchors, m.outputs[1]>>

\* the inputs of ClipBoxes: [model.inputs[0], boxes]
ClipInputs(m) == <<Tensor(m.inputs[1]), Tensor("boxes")>>

\* the inputs of FilterDetections: [boxes, classification] + other
FilterInputs(m) ==
    <<Tensor("clipped_boxes"), m.outputs[2]>> \o SubSeq(m.outputs, 3, Len(m.outputs))

\* the weights of the layers retinanet_bbox adds: Anchors, Concatenate,
\* RegressBoxes, ClipBoxes and FilterDetections have no learned parameters
AddedWeights == {}

\* the weights of the layers keras.models.Model(inputs, outputs) finds between
\* the inputs and the tensors the decoder and the filter consume
GraphWeights(m, consumed) ==
    BackboneWeights \cup LayerWeights(m.layers) \cup AppliedWeights(consumed)
    \cup AddedWeights

retinanet_bbox(a) ==
    LET base == BboxBase(a) IN
    IF ~base.ok THEN base
    ELSE
      LET m == base.value
          names == {m.layers[i].name : i \in 1..Len(m.layers)}
      IN
      IF \E i \in 1..Len(FeatureNames) : FeatureNames[i] \notin names
      THEN Raise("ValueError")                  \* get_layer: no such layer
      ELSE
        LET anchors == build_anchors(a.anchor_parameters, FeatureNames) IN
        IF ~anchors.ok THEN anchors
        ELSE IF Len(m.outputs) < 2 THEN Raise("IndexError")
        ELSE
          LET boxes  == BoxesInputs(m, AnchorsTensor(anchors.value))
              filter == FilterInputs(m)
          IN Ok([ kind    |-> "Model",
                  name    |-> "retinanet-bbox",
                  inputs  |-> m.inputs,
                  base    |-> m,
                  anchors |-> anchors.value,
                  boxes   |-> boxes,
                  clipped_boxes |-> ClipInputs(m),
                  filtered_detections |-> filter,
                  filter  |-> FilterConfig(a),
                  weights |-> GraphWeights(m, <<boxes[2]>> \o Tail(filter)) ])

-----------------------------------------------------------------------------
(* One forward pass, by shape: what each layer puts out for backbone maps  *)
(* of given shapes.  A shape is <<height, width, channels>>.               *)

CeilDiv(a, b) == (a + b - 1) \div b

\* a faulty LayerShape: UpsampleLike doubles its first input, whatever the target
LayerShape_doubling(layer, env) ==
    LET in1 == env[layer.inputs[1]] IN
    CASE layer.op = "Conv2D" ->
           <<CeilDiv(in1[1], layer.strides), CeilDiv(in1[2], layer.strides), PyramidFeatureSize>>
      [] layer.op = "UpsampleLike" -> <<2 * in1[1], 2 * in1[2], in1[3]>>
      [] OTHER -> in1

\* the output shape of one pyramid layer, from the shapes in env
LayerShape(layer, env) ==
    LET in1 == env[layer.inputs[1]] IN
    CASE layer.op = "Conv2D" ->       \* padding='same'
           <<CeilDiv(in1[1], layer.strides), CeilDiv(in1[2], layer.strides), PyramidFeatureSize>>
      [] layer.op = "UpsampleLike" -> \* resized to the spatial shape of the second input
           LET target == env[layer.inputs[2]] IN <<target[1], target[2], in1[3]>>
      [] layer.op = "Add" -> in1
      [] OTHER -> in1

RECURSIVE Shapes(_, _)
Shapes(layers, env) ==
    IF layers = <<>> THEN env
    ELSE Shapes(Tail(layers), (Head(layers).name :> LayerShape(Head(layers), env)) @@ env)

\* the shapes of P3..P7 for backbone maps c3, c4, c5
FeatureShapes(layers, c3, c4, c5) ==
    LET env == Shapes(layers, ("C3" :> c3) @@ ("C4" :> c4) @@ ("C5" :> c5))
    IN [i \in 1..Len(FeatureNames) |-> env[FeatureNames[i]]]

\* the output of a Conv2D with `filters` channels on a map of shape (H, W),
\* flattened channels-last: each element is known by its place
ConvOut(shape, filters) ==
    [e \in 1..(shape[1] * shape[2] * filters) |->
        [ row |-> ((e - 1) \div filters) \div shape[2],
          col |-> ((e - 1) \div filters) % shape[2],
          ch  |-> (e - 1) % filters ]]

\* keras.layers.Reshape((-1, n)) of a flat tensor: rows of n consecutive elements
Reshape(t, n) == [j \in 1..(Len(t) \div n) |-> SubSeq(t, (j - 1) * n + 1, j * n)]

\* the rows one submodel puts out for one feature map
HeadRows(submodel, shape) == Reshape(ConvOut(shape, submodel.filters), submodel.row)

\* generate_anchors: one base anchor for every (ratio, scale) pair
BaseAnchors(ratios, scales) ==
    Flatten([i \in 1..Len(ratios) |->
                [j \in 1..Len(scales) |-> [ratio |-> ratios[i], scale |-> scales[j]]]])

\* layers.Anchors: the base anchors shifted to every location of the map, row-major
Anchors(layer, shape) ==
    LET base == BaseAnchors(layer.ratios, layer.scales) IN
    Flatten([p \in 1..(shape[1] * shape[2]) |->
                [b \in 1..Len(base) |->
                    [ size |-> layer.size, stride |-> layer.stride,
                      row |-> (p - 1) \div shape[2], col |-> (p - 1) % shape[2],
                      ratio |-> base[b].ratio, scale |-> base[b].scale ]]])

\* the forward pass of the inference model pm on backbone maps c3, c4, c5:
\* per level, the feature shape, the number of anchors, and per output the number of rows
ForwardShapes(pm, c3, c4, c5) ==
    LET shapes == FeatureShapes(pm.base.layers, c3, c4, c5) IN
    [ kind     |-> "Run",
      C        |-> <<c3, c4, c5>>,
      features |-> shapes,
      anchors  |-> [l \in 1..NumLevels |-> Len(Anchors(pm.anchors[l], shapes[l]))],
      rows     |-> [o \in 1..Len(pm.base.outputs) |->
                      [l \in 1..NumLevels |->
                          Len(HeadRows(pm.base.outputs[o].inputs[l].model, shapes[l]))]] ]

\* the shape of the feature named f, from the shapes of P3..P7
ShapeOfFeature(shapes, f) == shapes[CHOOSE i \in 1..Len(FeatureNames) : FeatureNames[i] = f]

\* the rows of one level, each known by the feature it was computed from
OfLevel(f, rows) == [j \in 1..Len(rows) |-> [level |-> f, at |-> rows[j]]]

\* Concatenate(axis=1): the rows of the inputs, one input after the other
Concatenate(inputs) == Flatten(inputs)

\* a faulty ConcatAnchors: the levels are concatenated coarsest first
ConcatAnchors_reversed(pm, shapes) ==
    Concatenate([l \in 1..Len(pm.anchors) |->
        LET layer == pm.anchors[Len(pm.anchors) + 1 - l]
        IN OfLevel(layer.feature, Anchors(layer, ShapeOfFeature(shapes, layer.feature)))])

\* the tensor 'anchors' of the inference model pm: the anchors of every layer
\* __build_anchors made, in the order of its list
ConcatAnchors(pm, shapes) ==
    Concatenate([l \in 1..Len(pm.anchors) |->
        OfLevel(pm.anchors[l].feature,
                Anchors(pm.anchors[l], ShapeOfFeature(shapes, pm.anchors[l].feature)))])

\* output o of the base model of pm: what the submodel puts out for every
\* feature, in the order __build_model_pyramid applied it
ConcatOutput(pm, o, shapes) ==
    Concatenate([l \in 1..Len(pm.base.outputs[o].inputs) |->
        OfLevel(pm.base.outputs[o].inputs[l].feature,
                HeadRows(pm.base.outputs[o].inputs[l].model,
                         ShapeOfFeature(shapes, pm.base.outputs[o].inputs[l].feature)))])

-----------------------------------------------------------------------------
(* One forward pass, by value: the layers retinanet_bbox adds, applied to  *)
(* the anchors, the regression deltas and the classification scores of one *)
(* image.  A box is <<x1, y1, x2, y2>>; scores and thresholds are in       *)
(* hundredths; labels count from 0.                                        *)

Min(a, b) == IF a < b THEN a ELSE b
Max(a, b) == IF a > b THEN a ELSE b

\* RegressBoxes: each delta is a fraction of the anchor's extent
RegressBox(anchor, delta) ==
    LET w == anchor[3] - anchor[1]
        h == anchor[4] - anchor[2]
    IN << anchor[1] + delta[1] * w, anchor[2] + delta[2] * h,
          anchor[3] + delta[3] * w, anchor[4] + delta[4] * h >>

RegressBoxes(anchors, regression) ==
    [i \in 1..Len(anchors) |-> RegressBox(anchors[i], regression[i])]

Clamp(v, lo, hi) == Max(lo, Min(v, hi))

\* ClipBoxes: x into [0, width - 1], y into [0, height - 1]; image is <<height, width>>
ClipBoxes(image, boxes) ==
    [i \in 1..Len(boxes) |->
        << Clamp(boxes[i][1], 0, image[2] - 1), Clamp(boxes[i][2], 0, image[1] - 1),
           Clamp(boxes[i][3], 0, image[2] - 1), Clamp(boxes[i][4], 0, image[1] - 1) >>]

Area(b) == Max(0, b[3] - b[1]) * Max(0, b[4] - b[2])

Intersection(a, b) ==
    Max(0, Min(a[3], b[3]) - Max(a[1], b[1])) * Max(0, Min(a[4], b[4]) - Max(a[2], b[2]))

\* IoU(a, b) >= t / 100
IoUAtLeast(a, b, t) ==
    LET inter == Intersection(a, b)
        union == Area(a) + Area(b) - inter
    IN union > 0 /\ inter * 100 >= t * union

\* a faulty SortByScore: the entries are left in the order they came
SortByScore_unsorted(es) == es

\* a stable sort by score, descending: the first of the highest-scoring entries leads
RECURSIVE SortByScore(_)
SortByScore(es) ==
    IF es = <<>> THEN <<>>
    ELSE LET best == CHOOSE i \in 1..Len(es) :
                       /\ \A j \in 1..Len(es) : es[j].score <= es[i].score
                       /\ \A j \in 1..(i - 1) : es[j].score < es[i].score
             rest == [j \in 1..(Len(es) - 1) |-> IF j < best THEN es[j] ELSE es[j + 1]]
         IN <<es[best]>> \o SortByScore(rest)

\* greedy non-maximum suppression of entries sorted by score: keep the top one,
\* discard the others that overlap it by nms_threshold or more, go on with the rest
RECURSIVE GreedyNMS(_, _)
GreedyNMS(es, nms_threshold) ==
    IF es = <<>> THEN <<>>
    ELSE LET top == Head(es)
             Apart(e) == ~IoUAtLeast(top.box, e.box, nms_threshold)
         IN <<top>> \o GreedyNMS(SelectSeq(Tail(es), Apart), nms_threshold)

\* the entries of one label whose score is above the threshold, NMS applied if asked
FilterLabel(cfg, entries) ==
    LET Above(e) == e.score > cfg.score_threshold
        candidates == SelectSeq(entries, Above)
    IN IF cfg.nms THEN GreedyNMS(SortByScore(candidates), cfg.nms_threshold)
       ELSE candidates

\* the first index of the highest score of one anchor
ArgMax(row) ==
    CHOOSE c \in 1..Len(row) :
        /\ \A d \in 1..Len(row) : row[d] <= row[c]
        /\ \A d \in 1..(c - 1) : row[d] < row[c]

Sentinel == [box |-> <<-1, -1, -1, -1>>, score |-> -1, label |-> -1, index |-> -1]

\* FilterDetections on one image: max_detections entries, the detections first
FilterDetections(cfg, boxes, classification) ==
    LET N == Len(boxes)
        C == IF N = 0 THEN 0 ELSE Len(classification[1])
        OfLabel(c) == [i \in 1..N |-> [box |-> boxes[i], score |-> classification[i][c],
                                       label |-> c - 1, index |-> i]]
        Best == [i \in 1..N |-> [box |-> boxes[i],
                                 score |-> classification[i][ArgMax(classification[i])],
                                 label |-> ArgMax(classification[i]) - 1, index |-> i]]
        kept == IF cfg.class_specific_filter
                THEN Flatten([c \in 1..C |-> FilterLabel(cfg, OfLabel(c))])
                ELSE FilterLabel(cfg, Best)
        top  == SortByScore(kept)
        n    == Min(Len(top), cfg.max_detections)
    IN [k \in 1..cfg.max_detections |-> IF k <= n THEN top[k] ELSE Sentinel]

\* the inference model pm on one image: each added layer reads the values of
\* the tensors it was wired to
PredictValues(pm, in) ==
    LET env0    == ("input_1" :> in.image) @@ ("anchors" :> in.anchors)
                   @@ ("regression" :> in.regression)
                   @@ ("classification" :> in.classification)
        boxes   == RegressBoxes(env0[pm.boxes[1].name], env0[pm.boxes[2].name])
        env1    == ("boxes" :> boxes) @@ env0
        clipped == ClipBoxes(env1[pm.clipped_boxes[1].name], env1[pm.clipped_boxes[2].name])
        env2    == ("clipped_boxes" :> clipped) @@ env1
    IN [ kind          |-> "Predict",
         in            |-> in,
         boxes         |-> boxes,
         clipped_boxes |-> clipped,
         detections    |-> FilterDetections(pm.filter,
                                            env2[pm.filtered_detections[1].name],
                                            env2[pm.filtered_detections[2].name]) ]

-----------------------------------------------------------------------------
(* The arguments the constructors are called with.                         *)

DefaultSizes   == <<32, 64, 128, 256, 512>>
DefaultStrides == <<8, 16, 32, 64, 128>>
DefaultRatios  == <<50, 100, 200>>        \* 0.5, 1, 2
DefaultScales  == <<100, 126, 159>>       \* 2^0, 2^(1/3), 2^(2/3)
DefaultFeatureSizes == <<256, 256, 256, 256>>

\* a list of n level values that starts like the default one and keeps doubling
RECURSIVE Doubling(_, _)
Doubling(first, n) ==
    IF n = 0 THEN <<>> ELSE <<first>> \o Doubling(2 * first, n - 1)

\* the level counts tried for sizes and strides: one too few, right, one too many
LevelCounts == {NumLevels - 1, NumLevels, NumLevels + 1}

AnchorParametersArgs(ratio_counts) ==
    {AnchorParameters(Doubling(DefaultSizes[1], ns), Doubling(DefaultStrides[1], nt),
                      SubSeq(DefaultRatios, 1, nr), SubSeq(DefaultScales, 1, nc)) :
        ns \in LevelCounts, nt \in LevelCounts, nr \in ratio_counts, nc \in ratio_counts}

AnchorParameters_default ==
    AnchorParameters(DefaultSizes, DefaultStrides, DefaultRatios, DefaultScales)

\* the names a caller gives its submodels
SubmodelNames == <<"regression", "classification", "masks", "depth", "extra">>

\* a custom submodel of the caller
CustomModel(i) ==
    [ name      |-> "custom_submodel",
      id        |-> <<"custom_submodel", i>>,
      in_ch     |-> PyramidFeatureSize,
      filters   |-> 1,
      row       |-> 1,
      activation |-> "linear",
      evaluates |-> << <<"custom_submodel", i>> >>,
      weights   |-> FinalConv(<<"custom_submodel", i>>, "custom") ]

\* the lists of (name, model) pairs a caller passes as `submodels`
CallerLists ==
    {[i \in 1..n |-> <<SubmodelNames[i], CustomModel(i)>>] : n \in 2..MaxSubmodels}

SubmodelsArgs ==
    {PyNone, PyStr(Str_joint), PyStr(Str_joint_submodels), PyStr(Str_join), PyStr(Str_default)}
    \cup {PyList(l) : l \in CallerLists}

\* the keyword arguments of RetinaNet other than num_anchors
RetinaNetKwargs ==
    [ submodels            : SubmodelsArgs,
      share_rpn            : BOOLEAN,
      num_classes          : {1, 2},
      class_feature_sizes  : {DefaultFeatureSizes},
      regr_feature_sizes   : {DefaultFeatureSizes},
      common_feature_sizes : {<<>>, DefaultFeatureSizes},
      coordconv            : BOOLEAN ]

NumAnchorsArgs == {1, DefaultNumAnchors}

\* the arguments of one retinanet_bbox call
BboxArgs(m, ap, f, kwargs) ==
    [ model                 |-> m,
      anchor_parameters     |-> ap,
      nms                   |-> f.nms,
      class_specific_filter |-> f.class_specific_filter,
      score_threshold       |-> f.score_threshold,
      max_detections        |-> f.max_detections,
      nms_threshold         |-> f.nms_threshold,
      kwargs                |-> kwargs ]

\* the shapes of the backbone maps C3, C4, C5 of one image: each half the one before
Half(shape) == <<CeilDiv(shape[1], 2), CeilDiv(shape[2], 2), shape[3]>>

BackboneShapes ==
    {<< <<h, w, 512>>, Half(<<h, w, 1024>>), Half(Half(<<h, w, 2048>>)) >> :
        h \in 1..MaxSide, w \in 1..MaxSide}

-----------------------------------------------------------------------------
(* The construction, as a state machine.                                   *)

Init ==
    /\ pc = "start"
    /\ call = [RetinaNet |-> NoCall, retinanet_bbox |-> NoCall]
    /\ model = NoModel
    /\ prediction_model = NoModel
    /\ error = "none"
    /\ run = NoRun
    /\ predict = NoPredict

\* a caller builds the base model: RetinaNet(num_anchors=na, **kw)
CallRetinaNet ==
    /\ pc = "start"
    /\ \E na \in NumAnchorsArgs, kw \in RetinaNetKwargs :
         LET r == RetinaNet(na, kw) IN
         /\ call' = [call EXCEPT !.RetinaNet = [fn |-> "RetinaNet", num_anchors |-> na, kw |-> kw]]
         /\ model' = r.value
         /\ error' = r.error
         /\ pc' = IF r.ok THEN "base" ELSE "error"
    /\ UNCHANGED <<prediction_model, run, predict>>

\* the steps of a retinanet_bbox call with arguments a
DoRetinanetBbox(a) ==
    LET r == retinanet_bbox(a) IN
    /\ call' = [call EXCEPT !.retinanet_bbox = [fn |-> "retinanet_bbox", args |-> a]]
    /\ prediction_model' = r.value
    /\ error' = r.error
    /\ pc' = IF r.ok THEN "bbox" ELSE "error"
    /\ UNCHANGED <<model, run, predict>>

\* retinanet_bbox(model=model, anchor_parameters=ap): on top of the base model built
CallRetinanetBbox ==
    /\ pc = "base"
    /\ \E ap \in AnchorParametersArgs(0..MaxRatios) :
         DoRetinanetBbox(BboxArgs(model, ap, DefaultFilterArgs, NoCall))

\* retinanet_bbox(anchor_parameters=ap, **kw): the base model is built inside
CallRetinanetBboxKwargs ==
    /\ pc = "start"
    /\ \E ap \in AnchorParametersArgs(1..MaxRatios), kw \in RetinaNetKwargs :
         DoRetinanetBbox(BboxArgs(NoModel, ap, DefaultFilterArgs, kw))

\* the inference model is run on one image
Forward ==
    /\ pc = "bbox"
    /\ \E c \in BackboneShapes :
         run' = ForwardShapes(prediction_model, c[1], c[2], c[3])
    /\ pc' = "ran"
    /\ UNCHANGED <<call, model, prediction_model, error, predict>>

Next ==
    \/ CallRetinaNet
    \/ CallRetinanetBbox
    \/ CallRetinanetBboxKwargs
    \/ Forward

Spec == Init /\ [][Next]_vars

-----------------------------------------------------------------------------
(* The detection filter on small images: the inference model is built with *)
(* the caller's filter arguments and run on the anchors and scores of one  *)
(* image.  The heads' outputs are whatever the weights make them, so the   *)
(* scores are free; anchor i is the box <<i-1, 0, i+2, 1>>, so neighbours  *)
(* overlap by IoU 1/2 and next-to-neighbours by IoU 1/5.                   *)

ScoreValues == {5, 60, 90}

FilterArgs ==
    [ nms                   : BOOLEAN,
      class_specific_filter : BOOLEAN,
      score_threshold       : {5, 60},
      max_detections        : 1..MaxDet,
      nms_threshold         : {20, 50} ]

\* the keyword arguments of a plain two-class RetinaNet
PlainKwargs ==
    [ submodels            |-> PyNone,
      share_rpn            |-> TRUE,
      num_classes          |-> 2,
      class_feature_sizes  |-> DefaultFeatureSizes,
      regr_feature_sizes   |-> DefaultFeatureSizes,
      common_feature_sizes |-> DefaultFeatureSizes,
      coordconv            |-> FALSE ]

ZeroDelta == <<0, 0, 0, 0>>

FilterImages ==
    UNION {{[ image          |-> <<4, 8>>,
              anchors        |-> [i \in 1..n |-> <<i - 1, 0, i + 2, 1>>],
              regression     |-> [i \in 1..n |-> ZeroDelta],
              classification |-> s ] :
              s \in [1..n -> [1..2 -> ScoreValues]]} :
           n \in 0..MaxAnchors}

\* retinanet_bbox(score_threshold=.., max_detections=.., nms_threshold=.., ...)
BuildFilterModel ==
    /\ pc = "start"
    /\ \E f \in FilterArgs :
         DoRetinanetBbox(BboxArgs(NoModel, AnchorParameters_default, f, PlainKwargs))

\* prediction_model.predict on one image
PredictFilterImage ==
    /\ pc = "bbox"
    /\ \E in \in FilterImages : predict' = PredictValues(prediction_model, in)
    /\ pc' = "ran"
    /\ UNCHANGED <<call, model, prediction_model, error, run>>

NextFilter == BuildFilterModel \/ PredictFilterImage

SpecFilter == Init /\ [][NextFilter]_vars

-----------------------------------------------------------------------------
(* The box decoder on single anchors: any delta against any anchor, a      *)
(* zero-area one included, in images that do or do not hold the result.    *)

DecodeAnchors == {<<0, 0, 2, 2>>, <<1, 1, 1, 1>>, <<1, 0, 3, 1>>, <<2, 2, 2, 3>>}

DecodeFilterArgs ==
    [ nms |-> TRUE, class_specific_filter |-> TRUE, score_threshold |-> 5,
      max_detections |-> MaxDet, nms_threshold |-> 50 ]

DecodeImages ==
    {[ image          |-> im,
       anchors        |-> <<a>>,
       regression     |-> <<d>>,
       classification |-> << <<90, 5>> >> ] :
       im \in {<<3, 3>>, <<4, 5>>}, a \in DecodeAnchors,
       d \in [1..4 -> (-MaxDelta)..MaxDelta]}

BuildDecodeModel ==
    /\ pc = "start"
    /\ DoRetinanetBbox(BboxArgs(NoModel, AnchorParameters_default, DecodeFilterArgs,
                                PlainKwargs))

PredictDecodeImage ==
    /\ pc = "bbox"
    /\ \E in \in DecodeImages : predict' = PredictValues(prediction_model, in)
    /\ pc' = "ran"
    /\ UNCHANGED <<call, model, prediction_model, error, run>>

NextDecode == BuildDecodeModel \/ PredictDecodeImage

SpecDecode == Init /\ [][NextDecode]_vars

-----------------------------------------------------------------------------
(* The feature pyramid on its own: _create_pyramid_features applied to     *)
(* backbone maps of any three shapes, the coarser ones half the finer or   *)
(* not.                                                                    *)

PyramidSides == 1..(MaxSide + 1)

\* the shapes of C3, C4, C5, each of any height and width
PyramidInputs ==
    {<< <<h3, w3, 512>>, <<h4, w4, 1024>>, <<h5, w5, 2048>> >> :
        h3 \in PyramidSides, w3 \in PyramidSides, h4 \in PyramidSides,
        w4 \in PyramidSides, h5 \in PyramidSides, w5 \in PyramidSides}

\* _create_pyramid_features(C3, C4, C5): the maps it returns, in the order of
\* its return statement, each with its shape
CallCreatePyramidFeatures ==
    /\ pc = "start"
    /\ \E c \in PyramidInputs :
         run' = [ kind     |-> "Pyramid",
                  C        |-> c,
                  features |-> [i \in 1..Len(FeatureNames) |->
                                  [ name  |-> FeatureNames[i],
                                    shape |-> FeatureShapes(create_pyramid_features,
                                                            c[1], c[2], c[3])[i] ]] ]
    /\ pc' = "ran"
    /\ UNCHANGED <<call, model, prediction_model, error, predict>>

NextPyramid == CallCreatePyramidFeatures

SpecPyramid == Init /\ [][NextPyramid]_vars

-----------------------------------------------------------------------------
(* bin/train.py: the training driver.  A path or a name is a Python str,   *)
(* an option not given is None; the calls main makes on the backend and on *)
(* the weights are kept, in order, in a log.                               *)

Str_empty    == <<>>
Str_snapshot == <<"s", ".", "h", "5">>
Str_weights  == <<"w", ".", "h", "5">>
Str_val      == <<"v", ".", "c", "s", "v">>
Str_imagenet == <<"i", "m", "a", "g", "e", "n", "e", "t">>

\* bool(v) of an option's value: None and the empty str are false
Truthy(v) == v.type # "NoneType" /\ v.value # <<>>

\* v is not None
IsNotNone(v) == v.type # "NoneType"

\* a faulty check_args: --multi-gpu-force is not asked for
check_args_unforced(parsed_args) ==
    IF parsed_args.multi_gpu > 1 /\ parsed_args.batch_size < parsed_args.multi_gpu
    THEN Raise("ValueError")
    ELSE IF parsed_args.multi_gpu > 1 /\ Truthy(parsed_args.snapshot)
    THEN Raise("ValueError")
    ELSE Ok(parsed_args)

\* check_args: the contradictions within the parsed arguments
check_args(parsed_args) ==
    IF parsed_args.multi_gpu > 1 /\ parsed_args.batch_size < parsed_args.multi_gpu
    THEN Raise("ValueError")
    ELSE IF parsed_args.multi_gpu > 1 /\ Truthy(parsed_args.snapshot)
    THEN Raise("ValueError")
    ELSE IF parsed_args.multi_gpu > 1 /\ ~parsed_args.multi_gpu_force
    THEN Raise("ValueError")
    ELSE Ok(parsed_args)

\* parse_args: argparse has filled in the defaults; the result goes through check_args
parse_args(args) == check_args(args)

\* RetinaNet's own defaults for the head configuration
RetinaNetDefaults(num_classes) == [PlainKwargs EXCEPT !.num_classes = num_classes]

\* backbone.retinanet(num_classes, modifier=.., **kwargs): RetinaNet on the backbone's
\* C3, C4, C5 with the keyword arguments passed on, the others at their defaults
backbone_retinanet(num_classes, kwargs) ==
    RetinaNet(DefaultNumAnchors,
              [k \in DOMAIN RetinaNetDefaults(num_classes) |->
                  IF k \in DOMAIN kwargs THEN kwargs[k]
                  ELSE RetinaNetDefaults(num_classes)[k]])

\* model_with_weights: the calls made on the model; create_models keeps the file
\* load_weights was called with as `loaded` (None: not called)
model_with_weights(weights) ==
    IF IsNotNone(weights) THEN <<"load_weights">> ELSE <<>>

\* keras.utils.multi_gpu_model(model, gpus=multi_gpu): a new model that runs replicas
multi_gpu_model(m, gpus) ==
    [ kind |-> "Model", name |-> "multi_gpu_model", replica_of |-> m, gpus |-> gpus,
      inputs |-> m.inputs, weights |-> m.weights ]

\* a faulty Replicated: a single GPU is replicated too
Replicated_from_one(multi_gpu) == multi_gpu >= 1

\* whether create_models wraps the model in a parallel model
Replicated(multi_gpu) == multi_gpu > 1

\* the head configuration create_models passes to backbone_retinanet: none when the
\* model is replicated, the caller's otherwise
HeadKwargs(a) ==
    IF Replicated(a.multi_gpu) THEN [num_classes |-> a.num_classes]
    ELSE [ submodels            |-> a.submodels,
           share_rpn            |-> a.share_rpn,
           class_feature_sizes  |-> a.class_feature_sizes,
           regr_feature_sizes   |-> a.regr_feature_sizes,
           common_feature_sizes |-> a.common_feature_sizes,
           coordconv            |-> a.coordconv ]

\* the model create_models builds its prediction model on
PredictionBase(m, training_model) == m

\* create_models: (model, training_model, prediction_model), and the calls made
create_models(a) ==
    LET calls(m) == <<"backbone_retinanet">> \o model_with_weights(a.weights)
                    \o (IF Replicated(a.multi_gpu) THEN <<"multi_gpu_model">> ELSE <<>>)
                    \o <<"retinanet_bbox">>
        return(m, training_model, pm) ==
            IF ~pm.ok THEN [pm EXCEPT !.value = [log |-> calls(m)]]
            ELSE Ok([ model            |-> m,
                      training_model   |-> training_model,
                      prediction_model |-> pm.value,
                      compiled         |-> training_model,
                      loaded           |-> a.weights,
                      log              |-> calls(m) \o <<"compile">> ])
        wrap(m, training_model) ==
            return(m, training_model,
                   retinanet_bbox(BboxArgs(PredictionBase(m, training_model),
                                           AnchorParameters_default,
                                           [ DefaultFilterArgs EXCEPT
                                               !.score_threshold = a.score_threshold,
                                               !.max_detections  = a.max_detections,
                                               !.nms_threshold   = a.nms_threshold ],
                                           NoCall)))
        build(base) ==
            IF ~base.ok THEN [base EXCEPT !.value = [log |-> <<"backbone_retinanet">>]]
            ELSE wrap(base.value,
                      IF Replicated(a.multi_gpu) THEN multi_gpu_model(base.value, a.multi_gpu)
                      ELSE base.value)
    IN build(backbone_retinanet(a.num_classes, HeadKwargs(a)))

\* a data generator: it has a length and counts its classes
Generator(kind, subset) ==
    [ type |-> "Generator", kind |-> kind, subset |-> subset, num_classes |-> 2 ]

\* create_generators: (train_generator, validation_generator)
create_generators(args) ==
    IF args.dataset_type = "coco"
    THEN Ok(<<Generator("CocoGenerator", "train2017"), Generator("CocoGenerator", "val2017")>>)
    ELSE IF args.dataset_type = "csv"
    THEN Ok(<<Generator("CSVGenerator", "annotations"),
              IF Truthy(args.val_annotations) THEN Generator("CSVGenerator", "val_annotations")
              ELSE PyNone>>)
    ELSE Raise("ValueError")

\* bool(generator): None is false, a generator of a dataset is not
GeneratorGiven(g) == g.type # "NoneType"

\* len(generator)
len(g) == IF g.type = "NoneType" THEN Raise("TypeError") ELSE Ok(1)

\* create_callbacks: the callbacks, each with the model it is redirected to
create_callbacks(m, training_model, pm, validation_generator, args) ==
    (IF Truthy(args.tensorboard_dir) THEN <<[name |-> "TensorBoard"]>> ELSE <<>>)
    \o (IF args.evaluation /\ GeneratorGiven(validation_generator)
        THEN << [name |-> IF args.dataset_type = "coco" THEN "CocoEval" ELSE "Evaluate",
                 generator |-> validation_generator, model |-> pm.name],
                [name |-> "CSVWallClockLogger"] >>
        ELSE <<>>)
    \o (IF args.snapshots THEN <<[name |-> "ModelCheckpoint", model |-> m.name]>> ELSE <<>>)
    \o <<[name |-> "ReduceLROnPlateau"]>>

-----------------------------------------------------------------------------
(* main of bin/train.py, step by step.                                     *)

Str_logs == <<".", "/", "l", "o", "g", "s">>

\* the mutually exclusive group --snapshot | --imagenet-weights | --weights | --no-weights
WeightOptions ==
    { [snapshot |-> PyNone, weights |-> PyNone, imagenet_weights |-> TRUE],
      [snapshot |-> PyStr(Str_snapshot), weights |-> PyNone, imagenet_weights |-> TRUE],
      [snapshot |-> PyStr(Str_empty), weights |-> PyNone, imagenet_weights |-> TRUE],
      [snapshot |-> PyNone, weights |-> PyStr(Str_weights), imagenet_weights |-> TRUE],
      [snapshot |-> PyNone, weights |-> PyNone, imagenet_weights |-> FALSE] }

\* the dataset subcommands tried: csv without and with --val-annotations, and coco
DatasetOptions ==
    { [dataset_type |-> "csv",  val_annotations |-> PyNone],
      [dataset_type |-> "csv",  val_annotations |-> PyStr(Str_val)],
      [dataset_type |-> "coco", val_annotations |-> PyNone] }

\* the command lines main is run with, as argparse reads them
TrainArgs ==
    { [ dataset_type         |-> d.dataset_type,
        val_annotations      |-> d.val_annotations,
        snapshot             |-> w.snapshot,
        weights              |-> w.weights,
        imagenet_weights     |-> w.imagenet_weights,
        multi_gpu            |-> g,
        batch_size           |-> b,
        multi_gpu_force      |-> f,
        evaluation           |-> e,
        snapshots            |-> TRUE,
        tensorboard_dir      |-> PyStr(Str_logs),
        submodels            |-> s,
        share_rpn            |-> sh,
        class_feature_sizes  |-> DefaultFeatureSizes,
        regr_feature_sizes   |-> DefaultFeatureSizes,
        common_feature_sizes |-> c,
        coordconv            |-> cc,
        score_threshold      |-> DefaultFilterArgs.score_threshold,
        max_detections       |-> DefaultFilterArgs.max_detections,
        nms_threshold        |-> DefaultFilterArgs.nms_threshold ] :
        d \in DatasetOptions, w \in WeightOptions, g \in 0..MaxGpus, b \in 1..MaxBatch,
        f \in BOOLEAN, e \in BOOLEAN, s \in {PyNone, PyStr(Str_joint_submodels)},
        sh \in BOOLEAN, c \in {<<>>, DefaultFeatureSizes}, cc \in {FALSE} }

\* main has been called and has done nothing yet
NoMain ==
    [ kind |-> "main", log |-> <<>>, args |-> PyNone, train_generator |-> PyNone,
      validation_generator |-> PyNone, training_model |-> NoModel, loaded |-> PyNone,
      callbacks |-> <<>> ]

\* models.load_model(snapshot): the saved base model, when there is a file to read
load_model(snapshot) ==
    IF snapshot.value = <<>> THEN Raise("OSError")
    ELSE RetinaNet(DefaultNumAnchors, RetinaNetDefaults(2))

\* a faulty MainWeights: --no-weights is not looked at
MainWeights_always_imagenet(args) ==
    IF ~IsNotNone(args.weights)
    THEN [weights |-> PyStr(Str_imagenet), log |-> <<"download_imagenet">>]
    ELSE [weights |-> args.weights, log |-> <<>>]

\* the weights main hands to create_models, and the calls made to get them
MainWeights(args) ==
    IF ~IsNotNone(args.weights) /\ args.imagenet_weights
    THEN [weights |-> PyStr(Str_imagenet), log |-> <<"download_imagenet">>]
    ELSE [weights |-> args.weights, log |-> <<>>]

\* the arguments main calls create_models with
CreateModelsArgs(args, train_generator) ==
    [ num_classes          |-> train_generator.num_classes,
      weights              |-> MainWeights(args).weights,
      multi_gpu            |-> args.multi_gpu,
      score_threshold      |-> args.score_threshold,
      max_detections       |-> args.max_detections,
      nms_threshold        |-> args.nms_threshold,
      submodels            |-> args.submodels,
      share_rpn            |-> args.share_rpn,
      class_feature_sizes  |-> args.class_feature_sizes,
      regr_feature_sizes   |-> args.regr_feature_sizes,
      common_feature_sizes |-> args.common_feature_sizes,
      coordconv            |-> args.coordconv ]

\* the models main works with: loaded from the snapshot, or made by create_models
MainModels(args, train_generator) ==
    LET return(m, pm) ==
            IF ~pm.ok THEN [pm EXCEPT !.value = [log |-> <<"load_model">>]]
            ELSE Ok([ model |-> m, training_model |-> m, prediction_model |-> pm.value,
                      loaded |-> PyNone,
                      log |-> <<"load_model", "retinanet_bbox">> ])
        loaded(m) ==
            IF ~m.ok THEN [m EXCEPT !.value = [log |-> <<"load_model">>]]
            ELSE return(m.value, retinanet_bbox(BboxArgs(m.value, AnchorParameters_default,
                                                         DefaultFilterArgs, NoCall)))
        created(r) ==
            [r EXCEPT !.value.log = MainWeights(args).log \o <<"create_models">> \o @]
    IN IF IsNotNone(args.snapshot)
       THEN loaded(load_model(args.snapshot))
       ELSE created(create_models(CreateModelsArgs(args, train_generator)))

\* print("GPUS:", get_available_gpus()): the first statement of main
MainListGpus ==
    /\ pc = "start"
    /\ \E a \in TrainArgs :
         call' = [RetinaNet |-> NoCall, retinanet_bbox |-> NoCall,
                  main |-> [fn |-> "main", args |-> a]]
    /\ run' = [NoMain EXCEPT !.log = <<"list_local_devices">>]
    /\ pc' = "gpus"
    /\ UNCHANGED <<model, prediction_model, error, predict>>

\* args = parse_args(args), which ends in check_args
MainParseArgs ==
    /\ pc = "gpus"
    /\ LET r == parse_args(call.main.args) IN
       /\ run' = [run EXCEPT !.log = @ \o <<"check_args">>,
                             !.args = IF r.ok THEN r.value ELSE @]
       /\ error' = r.error
       /\ pc' = IF r.ok THEN "parsed" ELSE "error"
    /\ UNCHANGED <<call, model, prediction_model, predict>>

\* models.backbone(..), check_keras_version(), set_session(get_session())
MainSetSession ==
    /\ pc = "parsed"
    /\ run' = [run EXCEPT !.log = @ \o <<"backbone", "set_session">>]
    /\ pc' = "session"
    /\ UNCHANGED <<call, model, prediction_model, error, predict>>

\* train_generator, validation_generator = create_generators(args, ..)
MainCreateGenerators ==
    /\ pc = "session"
    /\ LET r == create_generators(run.args) IN
       /\ run' = [run EXCEPT !.log = @ \o <<"create_generators">>,
                             !.train_generator = IF r.ok THEN r.value[1] ELSE @,
                             !.validation_generator = IF r.ok THEN r.value[2] ELSE @]
       /\ error' = r.error
       /\ pc' = IF r.ok THEN "generators" ELSE "error"
    /\ UNCHANGED <<call, model, prediction_model, predict>>

\* the model is loaded from the snapshot or created
MainCreateModels ==
    /\ pc = "generators"
    /\ \E r \in {MainModels(run.args, run.train_generator)} :
       /\ run' = [run EXCEPT !.log = @ \o r.value.log,
                             !.training_model = IF r.ok THEN r.value.training_model ELSE @,
                             !.loaded = IF r.ok THEN r.value.loaded ELSE @]
       /\ model' = IF r.ok THEN r.value.model ELSE model
       /\ prediction_model' = IF r.ok THEN r.value.prediction_model ELSE prediction_model
       /\ error' = r.error
       /\ pc' = IF r.ok THEN "models" ELSE "error"
    /\ UNCHANGED <<call, predict>>

\* callbacks = create_callbacks(model, training_model, prediction_model, ..)
MainCreateCallbacks ==
    /\ pc = "models"
    /\ run' = [run EXCEPT !.log = @ \o <<"create_callbacks">>,
                          !.callbacks = create_callbacks(model, run.training_model,
                                                         prediction_model,
                                                         run.validation_generator,
                                                         run.args)]
    /\ pc' = "callbacks"
    /\ UNCHANGED <<call, model, prediction_model, error, predict>>

\* training_model.fit_generator(.., validation_steps=len(validation_generator), ..):
\* the arguments are evaluated, then training starts
MainFitGenerator ==
    /\ pc = "callbacks"
    /\ LET steps == len(run.validation_generator) IN
       /\ run' = [run EXCEPT !.log = IF steps.ok THEN @ \o <<"fit_generator">> ELSE @]
       /\ error' = steps.error
       /\ pc' = IF steps.ok THEN "training" ELSE "error"
    /\ UNCHANGED <<call, model, prediction_model, predict>>

NextTrain ==
    \/ MainListGpus
    \/ MainParseArgs
    \/ MainSetSession
    \/ MainCreateGenerators
    \/ MainCreateModels
    \/ MainCreateCallbacks
    \/ MainFitGenerator

SpecTrain == Init /\ [][NextTrain]_vars

-----------------------------------------------------------------------------
(* What the claims speak of.                                               *)

\* the base models built so far, each with the arguments it was built from
Built ==
    (IF model.kind = "Model"
     THEN {[m |-> model, na |-> call.RetinaNet.num_anchors, kw |-> call.RetinaNet.kw]}
     ELSE {})
    \cup
    (IF prediction_model.kind = "Model" /\ call.retinanet_bbox.args.model.kind = "NoModel"
     THEN {[m  |-> prediction_model.base,
            na |-> num_anchors(call.retinanet_bbox.args.anchor_parameters),
            kw |-> call.retinanet_bbox.args.kwargs]}
     ELSE {})

\* the names of a list of tensors, in order
Names(ts) == [i \in 1..Len(ts) |-> ts[i].name]

\* the identity of the submodel instance an output applies at level l
InstanceAt(t, l) == t.inputs[l].model.id

\* the keys of the loss dictionary the training model is compiled with
LossKeys == {"regression", "classification"}

(* C1: with share=False every two distinct pyramid levels get different      *)
(* submodel instances (clones, with weights of their own); with share=True   *)
(* all levels get one and the same instance.                                 *)
C1_UnsharedLevelsGetClones ==
    \A b \in Built : \A o \in 1..Len(b.m.outputs) :
        \A l1, l2 \in 1..NumLevels :
            l1 # l2 =>
               IF b.kw.share_rpn
               THEN InstanceAt(b.m.outputs[o], l1) = InstanceAt(b.m.outputs[o], l2)
               ELSE InstanceAt(b.m.outputs[o], l1) # InstanceAt(b.m.outputs[o], l2)

(* C2: retinanet_bbox(model=M) has M's inputs, decodes and filters M's own   *)
(* regression and classification outputs, and has exactly M's weights.       *)
C2_BboxReusesBaseWeights ==
    (prediction_model.kind = "Model" /\ call.retinanet_bbox.args.model.kind = "Model") =>
        LET M  == call.retinanet_bbox.args.model
            pm == prediction_model
        IN /\ pm.inputs = M.inputs
           /\ pm.boxes[2] = M.outputs[1]
           /\ pm.filtered_detections[2] = M.outputs[2]
           /\ pm.weights = M.weights

\* an inference model built on a supplied joint-head base model
C2_Witness ==
    /\ prediction_model.kind = "Model"
    /\ call.retinanet_bbox.args.model.kind = "Model"
    /\ call.RetinaNet.kw.submodels = PyStr(Str_joint_submodels)
    /\ \E w \in prediction_model.weights : w.layer = "pyramid_joint"

(* C3: RetinaNet called with a list of (name, model) pairs as `submodels`    *)
(* is not rejected and returns a model with one output per pair, in the      *)
(* order of the list; for any other value it returns a model with one output *)
(* per submodel or rejects the value.                                        *)
C3_SubmodelListAccepted ==
    call.RetinaNet.fn = "RetinaNet" =>
        LET kw == call.RetinaNet.kw IN
        /\ kw.submodels.type = "list" =>
              /\ model.kind = "Model"
              /\ Names(model.outputs) = [i \in 1..Len(kw.submodels.value) |->
                                            kw.submodels.value[i][1]]
        /\ (kw.submodels.type # "list" /\ model.kind = "Model") =>
              Names(model.outputs) = <<"regression", "classification">>

(* C4: for the default and the joint heads output 0 of the base model is     *)
(* 'regression' and output 1 is 'classification', each loss key names        *)
(* exactly one output, and retinanet_bbox gives the decoder the regression   *)
(* output, the filter the classification output and the further outputs in   *)
(* their order.                                                              *)
C4_OutputsNamedAndWired ==
    /\ \A b \in Built :
          /\ Len(b.m.outputs) >= 2
          /\ b.m.outputs[1].name = "regression"
          /\ b.m.outputs[2].name = "classification"
          /\ \A key \in LossKeys :
                Cardinality({i \in 1..Len(b.m.outputs) : b.m.outputs[i].name = key}) = 1
    /\ prediction_model.kind = "Model" =>
          LET pm == prediction_model
              m  == prediction_model.base
          IN /\ pm.boxes[1].name = "anchors"
             /\ pm.boxes[2] = m.outputs[1]
             /\ pm.boxes[2].name = "regression"
             /\ pm.filtered_detections[1].name = "clipped_boxes"
             /\ pm.filtered_detections[2] = m.outputs[2]
             /\ pm.filtered_detections[2].name = "classification"
             /\ SubSeq(pm.filtered_detections, 3, Len(pm.filtered_detections))
                  = SubSeq(m.outputs, 3, Len(m.outputs))

\* an inference model on joint heads, and one on default heads behind it
C4_Witness ==
    /\ prediction_model.kind = "Model"
    /\ \E b \in Built : /\ b.kw.submodels.type = "str"
                        /\ b.m = prediction_model.base
                        /\ b.m.outputs[1].inputs[1].model.name = "regr_model"

\* the arguments of the retinanet_bbox call and the filter's view of one run
Req == call.retinanet_bbox.args

Detections == predict.detections

\* the places of the output that hold a detection, not padding
Real == {k \in 1..Len(Detections) : Detections[k].score # -1}

\* the (anchor, label) pairs the filter may output: those scoring above the threshold
Candidates ==
    LET s == predict.in.classification IN
    IF Req.class_specific_filter
    THEN {<<i, c>> \in (1..Len(s)) \X (1..2) : s[i][c] > Req.score_threshold}
    ELSE {<<i, c>> \in (1..Len(s)) \X (1..2) :
             /\ c = ArgMax(s[i])
             /\ s[i][c] > Req.score_threshold}

\* anchor i is among the detections with label c - 1
InOutput(i, c) ==
    \E k \in Real : Detections[k].index = i /\ Detections[k].label = c - 1

\* two candidates of one label whose boxes overlap by nms_threshold or more
OverlappingPairs ==
    {p \in Candidates \X Candidates :
        /\ p[1][1] # p[2][1]
        /\ p[1][2] = p[2][2]
        /\ IoUAtLeast(predict.clipped_boxes[p[1][1]], predict.clipped_boxes[p[2][1]],
                      Req.nms_threshold)}

Score(cand) == predict.in.classification[cand[1]][cand[2]]

(* C5: the filter returns exactly max_detections entries whatever the number *)
(* of anchors above score_threshold; an entry is a detection above the       *)
(* threshold or the padding sentinel (score -1, label -1), and no detection  *)
(* is lost to padding: without NMS min(max_detections, candidates) entries   *)
(* are detections, with NMS at least one is when there is a candidate.       *)
C5_FixedSizeOutput ==
    pc = "ran" =>
        /\ Len(Detections) = Req.max_detections
        /\ \A k \in 1..Len(Detections) :
              \/ /\ Detections[k].score = -1
                 /\ Detections[k].label = -1
              \/ /\ Detections[k].score > Req.score_threshold
                 /\ <<Detections[k].index, Detections[k].label + 1>> \in Candidates
        /\ Cardinality(Real) <= Min(Req.max_detections, Cardinality(Candidates))
        /\ ~Req.nms => Cardinality(Real) = Min(Req.max_detections, Cardinality(Candidates))
        /\ Candidates # {} => Real # {}

\* fewer detections than max_detections: detections first, then padding
C5_Witness ==
    /\ pc = "ran"
    /\ Req.max_detections = MaxDet
    /\ Cardinality(Real) = 1
    /\ Cardinality(Candidates) > 1
    /\ Detections[MaxDet] = Sentinel

\* no candidate at all: padding only
C5_WitnessNone ==
    pc = "ran" /\ Len(predict.in.anchors) = MaxAnchors /\ Candidates = {} /\ Real = {}

\* more candidates than max_detections: no padding
C5_WitnessMore ==
    /\ pc = "ran"
    /\ Cardinality(Candidates) > Req.max_detections
    /\ Cardinality(Real) = Req.max_detections
    /\ Req.max_detections > 1

(* C6 as claimed: in class-specific filtering two candidates of one label    *)
(* whose IoU is at least nms_threshold never both appear in the output, and  *)
(* when one of them is removed it is the lower-scoring one.                  *)
C6_PairNeverBothAndLowerRemoved ==
    (pc = "ran" /\ Req.class_specific_filter) =>
        \A p \in OverlappingPairs :
            /\ ~(InOutput(p[1][1], p[1][2]) /\ InOutput(p[2][1], p[2][2]))
            /\ (InOutput(p[1][1], p[1][2]) /\ ~InOutput(p[2][1], p[2][2]))
                  => Score(p[2]) <= Score(p[1])

(* C6 as amended: in class-specific filtering with NMS switched on, two      *)
(* candidates of one label whose IoU is at least nms_threshold never both    *)
(* appear in the output; when the higher-scoring one is output the other is  *)
(* not.                                                                      *)
C6_PairNeverBothWithNms ==
    (pc = "ran" /\ Req.class_specific_filter /\ Req.nms) =>
        \A p \in OverlappingPairs :
            /\ ~(InOutput(p[1][1], p[1][2]) /\ InOutput(p[2][1], p[2][2]))
            /\ (Score(p[1]) > Score(p[2]) /\ InOutput(p[1][1], p[1][2]))
                  => ~InOutput(p[2][1], p[2][2])

\* with NMS on, the higher-scoring of an overlapping pair is removed by a third
\* box and the lower-scoring one is output
C6_Witness ==
    /\ pc = "ran"
    /\ Req.class_specific_filter
    /\ Req.nms
    /\ \E p \in OverlappingPairs :
          /\ Score(p[1]) > Score(p[2])
          /\ ~InOutput(p[1][1], p[1][2])
          /\ InOutput(p[2][1], p[2][2])

\* the claim's second half with NMS on: the removed one of a pair is the lower-scoring
C6_RemovedIsLowerWithNms ==
    (pc = "ran" /\ Req.class_specific_filter /\ Req.nms) =>
        \A p \in OverlappingPairs :
            (InOutput(p[1][1], p[1][2]) /\ ~InOutput(p[2][1], p[2][2]))
               => Score(p[2]) <= Score(p[1])

(* C7: in the filter's output the detections come first, the padding after   *)
(* them, and the scores never increase along the sequence, in class-specific *)
(* and in class-agnostic mode.                                               *)
C7_SortedPrefix ==
    pc = "ran" =>
        \A k \in 1..(Len(Detections) - 1) :
            /\ Detections[k].score = -1 => Detections[k + 1].score = -1
            /\ Detections[k].score >= Detections[k + 1].score

\* class-specific: a survivor of label 1 ahead of a lower-scoring one of label 0
C7_Witness ==
    /\ pc = "ran"
    /\ Req.class_specific_filter
    /\ Len(Detections) >= 3
    /\ Detections[1].label = 1
    /\ Detections[2].label = 0
    /\ Detections[1].score > Detections[2].score
    /\ Detections[3].score = -1

\* class-agnostic: two detections in score order
C7_WitnessAgnostic ==
    /\ pc = "ran"
    /\ ~Req.class_specific_filter
    /\ Len(Detections) >= 2
    /\ Detections[1].index > Detections[2].index
    /\ Detections[1].score > Detections[2].score
    /\ Detections[2].score > 0

\* a box with x in [0, width - 1] and y in [0, height - 1]; image is <<height, width>>
InBounds(b, image) ==
    /\ 0 <= b[1] /\ b[1] <= image[2] - 1
    /\ 0 <= b[3] /\ b[3] <= image[2] - 1
    /\ 0 <= b[2] /\ b[2] <= image[1] - 1
    /\ 0 <= b[4] /\ b[4] <= image[1] - 1

(* C8: a zero regression delta decodes to the anchor itself, a zero-area     *)
(* anchor included, and clipping leaves a box that lies in the image as it   *)
(* is.                                                                       *)
C8_ZeroDeltaAndInBoundsClip ==
    pc = "ran" =>
        \A i \in 1..Len(predict.in.anchors) :
            /\ predict.in.regression[i] = ZeroDelta
                  => predict.boxes[i] = predict.in.anchors[i]
            /\ InBounds(predict.boxes[i], predict.in.image)
                  => predict.clipped_boxes[i] = predict.boxes[i]

\* a zero delta against a zero-area anchor that lies in the image
C8_Witness ==
    /\ pc = "ran"
    /\ predict.in.anchors = << <<1, 1, 1, 1>> >>
    /\ predict.in.regression = <<ZeroDelta>>
    /\ predict.boxes = predict.in.anchors
    /\ predict.clipped_boxes = predict.boxes

\* a decoded box that leaves the image and is clipped
C8_WitnessClipped ==
    /\ pc = "ran"
    /\ ~InBounds(predict.boxes[1], predict.in.image)
    /\ predict.clipped_boxes[1] # predict.boxes[1]
    /\ InBounds(predict.clipped_boxes[1], predict.in.image)

(* C9: at a level whose feature map has shape (H, W) the anchor generator    *)
(* puts out H*W*k boxes for k = len(ratios)*len(scales), the regression head *)
(* has 4*k channels and puts out H*W*k rows of 4, and the classification     *)
(* head has num_classes*k channels and puts out H*W*k rows of num_classes,   *)
(* for the k it was built with.                                              *)
C9_AnchorAndRowCounts ==
    pc = "ran" =>
        LET pm  == prediction_model
            k   == prediction_model.base.num_anchors
            out == prediction_model.base.outputs
        IN \A l \in 1..NumLevels :
             LET H == run.features[l][1]
                 W == run.features[l][2]
             IN /\ run.anchors[l] = H * W * num_anchors(Req.anchor_parameters)
                /\ out[1].inputs[l].model.filters = 4 * k
                /\ out[1].inputs[l].model.row = 4
                /\ run.rows[1][l] = H * W * k
                /\ out[2].inputs[l].model.filters = pm.base.num_classes * k
                /\ out[2].inputs[l].model.row = pm.base.num_classes
                /\ run.rows[2][l] = H * W * k

\* a 2x2 map with nine anchors per location in the heads and four in the generator
C9_Witness ==
    /\ pc = "ran"
    /\ run.features[1][1] = 2
    /\ run.features[1][2] = 2
    /\ prediction_model.base.num_anchors = DefaultNumAnchors
    /\ prediction_model.base.num_classes = 2
    /\ run.rows[1][1] = 4 * DefaultNumAnchors
    /\ run.rows[2][1] = 4 * DefaultNumAnchors
    /\ run.anchors[1] = 16

(* C10: no inference model is built from an AnchorParameters whose number of *)
(* sizes or of strides is not the number of pyramid levels: retinanet_bbox   *)
(* raises for too few and for too many.                                      *)
C10_LevelCountMismatchRejected ==
    (/\ call.retinanet_bbox.fn = "retinanet_bbox"
     /\ \/ Len(Req.anchor_parameters.sizes) # NumLevels
        \/ Len(Req.anchor_parameters.strides) # NumLevels)
       => (pc = "error" /\ prediction_model.kind = "NoModel")

-----------------------------------------------------------------------------
(* What the claims on the training driver speak of.                        *)

\* the arguments main was run with
Argv == call.main.args

\* main has made the call named e
Called(e) == \E i \in 1..Len(run.log) : run.log[i] = e

\* the number of calls named e main has made
Calls(e) == Cardinality({i \in 1..Len(run.log) : run.log[i] = e})

\* main has its three models
HasModels == pc \in {"models", "callbacks", "training"}

(* C11: the training model create_models returns is the base model itself    *)
(* when multi_gpu is 0 or 1, and the prediction model is always built on the *)
(* base model, never on the replicated training model.                       *)
C11_TrainingModelIsBase ==
    (HasModels /\ Called("create_models")) =>
        /\ Argv.multi_gpu <= 1 => run.training_model = model
        /\ prediction_model.base = model
        /\ prediction_model.inputs = model.inputs
        /\ Argv.multi_gpu > 1 =>
              /\ run.training_model.replica_of = model
              /\ prediction_model.base # run.training_model

\* create_models has returned for --multi-gpu 1
C11_Witness ==
    /\ HasModels
    /\ Called("create_models")
    /\ Argv.multi_gpu = 1
    /\ run.training_model = model
    /\ prediction_model.base = model

\* create_models has returned a replicated training model
C11_WitnessReplicated ==
    /\ HasModels
    /\ Argv.multi_gpu > 1
    /\ run.training_model.name = "multi_gpu_model"
    /\ prediction_model.base = model

\* check_args has been called and has raised
CheckArgsRaised == pc = "error" /\ run.log = <<"list_local_devices", "check_args">>

\* check_args has been called and has returned
CheckArgsReturned == pc \notin {"start", "gpus"} /\ ~CheckArgsRaised

\* a path of a snapshot to resume from is among the arguments
SnapshotGiven == Argv.snapshot \notin {PyNone, PyStr(Str_empty)}

(* C12: check_args raises ValueError exactly when multi_gpu > 1 and the      *)
(* batch size is below multi_gpu, or a snapshot path is given, or            *)
(* multi_gpu_force is not set; otherwise it returns the arguments it was     *)
(* given, unchanged.                                                         *)
C12_CheckArgsRaisesExactly ==
    pc \notin {"start", "gpus"} =>
        LET contradiction ==
                /\ Argv.multi_gpu > 1
                /\ \/ Argv.batch_size < Argv.multi_gpu
                   \/ SnapshotGiven
                   \/ ~Argv.multi_gpu_force
        IN /\ CheckArgsRaised <=> contradiction
           /\ CheckArgsRaised => error = "ValueError"
           /\ CheckArgsReturned => run.args = Argv

\* raised for the snapshot alone
C12_Witness ==
    /\ CheckArgsRaised
    /\ Argv.multi_gpu > 1
    /\ Argv.batch_size >= Argv.multi_gpu
    /\ Argv.multi_gpu_force
    /\ SnapshotGiven

\* returned for more than one GPU
C12_WitnessReturned ==
    CheckArgsReturned /\ Argv.multi_gpu > 1 /\ run.args = Argv

\* the calls of main that initialise or use the backend: device listing, session
\* creation, model construction
BackendCalls ==
    {"list_local_devices", "set_session", "load_model", "backbone_retinanet",
     "multi_gpu_model", "retinanet_bbox", "compile", "fit_generator"}

(* C13: main makes no call that touches the backend (device listing, session *)
(* creation, model construction) before check_args has been called and has   *)
(* returned or raised.                                                       *)
C13_NoBackendBeforeCheckArgs ==
    pc # "start" =>
        \A i \in 1..Len(run.log) :
            run.log[i] \in BackendCalls => \E j \in 1..(i - 1) : run.log[j] = "check_args"

\* the callbacks that evaluate on the validation data
EvaluationCallbacks ==
    {i \in 1..Len(run.callbacks) : run.callbacks[i].name \in {"Evaluate", "CocoEval"}}

(* C14: for the csv dataset type without --val-annotations there is no       *)
(* validation generator, no evaluation callback is installed, and no step of *)
(* main from there on fails: main goes on to start training.                 *)
C14_TrainingStartsWithoutValidation ==
    (/\ pc # "start"
     /\ Argv.dataset_type = "csv"
     /\ Argv.val_annotations = PyNone
     /\ Called("create_callbacks")) =>
        /\ run.validation_generator = PyNone
        /\ EvaluationCallbacks = {}
        /\ pc # "error"

(* C15: a run that gets its models applies one weight source, by priority:   *)
(* with --snapshot the saved model is loaded and create_models is not        *)
(* called; otherwise with --weights FILE that file is loaded; otherwise,     *)
(* unless --no-weights, the ImageNet weights are downloaded and loaded; with *)
(* --no-weights neither download_imagenet nor load_weights is called.        *)
C15_OneWeightSource ==
    HasModels =>
        /\ Calls("load_model") + Calls("load_weights") <= 1
        /\ IF Argv.snapshot # PyNone
           THEN /\ Calls("load_model") = 1
                /\ ~Called("create_models")
                /\ ~Called("download_imagenet")
                /\ ~Called("load_weights")
           ELSE IF Argv.weights # PyNone
           THEN /\ Calls("load_weights") = 1
                /\ run.loaded = Argv.weights
                /\ ~Called("download_imagenet")
                /\ ~Called("load_model")
           ELSE IF Argv.imagenet_weights
           THEN /\ Calls("download_imagenet") = 1
                /\ Calls("load_weights") = 1
                /\ run.loaded = PyStr(Str_imagenet)
                /\ ~Called("load_model")
           ELSE /\ ~Called("download_imagenet")
                /\ ~Called("load_weights")
                /\ ~Called("load_model")
                /\ run.loaded = PyNone

\* a run with --no-weights has its models
C15_Witness ==
    /\ HasModels
    /\ Argv.snapshot = PyNone /\ Argv.weights = PyNone /\ ~Argv.imagenet_weights
    /\ Called("create_models")
    /\ ~Called("load_weights")

\* a run with --snapshot has its models
C15_WitnessSnapshot ==
    HasModels /\ Argv.snapshot = PyStr(Str_snapshot) /\ Called("load_model")

\* a run with --weights FILE on more than one GPU has its models
C15_WitnessWeights ==
    /\ HasModels
    /\ Argv.weights = PyStr(Str_weights)
    /\ Argv.multi_gpu > 1
    /\ run.loaded = Argv.weights

\* the base models built with the joint submodels
BuiltJoint ==
    {b \in Built : b.kw.submodels.type = "str" /\ StartsWith(b.kw.submodels.value, Str_joint)}

\* the evaluations of the common trunk on feature f when m is run
TrunkEvaluations(m, f) ==
    {i \in 1..Len(Evaluations(m.outputs)) :
        /\ Evaluations(m.outputs)[i].instance[1] = "common_submodel"
        /\ Evaluations(m.outputs)[i].feature = f}

LayerNamed(m, n) == m.layers[CHOOSE i \in 1..Len(m.layers) : m.layers[i].name = n]

\* the layers named ns are Conv2D layers of kernel size k and stride s
AreConv(m, ns, k, s) ==
    \A n \in ns : /\ LayerNamed(m, n).op = "Conv2D"
                  /\ LayerNamed(m, n).kernel = k
                  /\ LayerNamed(m, n).strides = s

\* what claim C17 and its amendment agree on: the lateral 1x1 reductions, the merges
\* with the upsampled maps, the 3x3 refinements, P6 from C5 and P7 from ReLU(P6)
PyramidFrame(m) ==
    /\ AreConv(m, {"C5_reduced", "C4_reduced", "C3_reduced"}, 1, 1)
    /\ AreConv(m, {"P5", "P4", "P3"}, 3, 1)
    /\ AreConv(m, {"P6", "P7"}, 3, 2)
    /\ LayerNamed(m, "C5_reduced").inputs = <<"C5">>
    /\ LayerNamed(m, "C4_reduced").inputs = <<"C4">>
    /\ LayerNamed(m, "C3_reduced").inputs = <<"C3">>
    /\ LayerNamed(m, "P5").inputs = <<"C5_reduced">>
    /\ LayerNamed(m, "P4_merged").op = "Add"
    /\ LayerNamed(m, "P4_merged").inputs = <<"P5_upsampled", "C4_reduced">>
    /\ LayerNamed(m, "P4").inputs = <<"P4_merged">>
    /\ LayerNamed(m, "P3_merged").op = "Add"
    /\ LayerNamed(m, "P3_merged").inputs = <<"P4_upsampled", "C3_reduced">>
    /\ LayerNamed(m, "P3").inputs = <<"P3_merged">>
    /\ LayerNamed(m, "P5_upsampled").op = "UpsampleLike"
    /\ LayerNamed(m, "P5_upsampled").inputs[2] = "C4"
    /\ LayerNamed(m, "P4_upsampled").op = "UpsampleLike"
    /\ LayerNamed(m, "P4_upsampled").inputs[2] = "C3"
    /\ LayerNamed(m, "P6").inputs = <<"C5">>
    /\ LayerNamed(m, "C6_relu").op = "Activation"
    /\ LayerNamed(m, "C6_relu").inputs = <<"P6">>
    /\ LayerNamed(m, "P7").inputs = <<"C6_relu">>

(* C17 as claimed: the map upsampled to C4's size and added to the reduced   *)
(* C4 is P5, the 3x3-refined reduced C5; the map upsampled to C3's size and  *)
(* added to the reduced C3 is P4, the 3x3-refined P4 merge; P6 is computed   *)
(* from C5 and P7 from ReLU(P6).                                             *)
C17_UpsampledMapsAreRefined ==
    \A b \in Built :
        /\ PyramidFrame(b.m)
        /\ LayerNamed(b.m, "P5_upsampled").inputs[1] = "P5"
        /\ LayerNamed(b.m, "P4_upsampled").inputs[1] = "P4"

(* C17 as amended: the map upsampled to C4's size and added to the reduced   *)
(* C4 is the 1x1-reduced C5, before its 3x3 refinement into P5; the map      *)
(* upsampled to C3's size and added to the reduced C3 is the P4 merge,       *)
(* before its 3x3 refinement into P4; P6 is computed from C5 and P7 from     *)
(* ReLU(P6).                                                                 *)
C17_UpsampledMapsAreUnrefined ==
    \A b \in Built :
        /\ PyramidFrame(b.m)
        /\ LayerNamed(b.m, "P5_upsampled").inputs[1] = "C5_reduced"
        /\ LayerNamed(b.m, "P4_upsampled").inputs[1] = "P4_merged"

\* a base model has been built, its pyramid with it
C17_Witness ==
    /\ model.kind = "Model"
    /\ model \in {b.m : b \in Built}
    /\ LayerNamed(model, "P5_upsampled").inputs = <<"C5_reduced", "C4">>
    /\ Names(model.layers)[3] = "P5"

\* the spatial shape of a map with feature_size channels
WithFeatureSize(shape) == <<shape[1], shape[2], PyramidFeatureSize>>

(* C18: for every triple of backbone map shapes (C3, C4, C5),                *)
(* _create_pyramid_features returns exactly the five maps P3, P4, P5, P6,    *)
(* P7 in that order, each with feature_size channels; P3, P4, P5 have the    *)
(* spatial shapes of C3, C4, C5 (also when a coarser map is not half the     *)
(* finer one), P6 has the shape ceil(C5/2) and P7 the shape ceil(P6/2).      *)
C18_PyramidShapes ==
    run.kind = "Pyramid" =>
        /\ Len(run.features) = 5
        /\ [i \in 1..5 |-> run.features[i].name] = <<"P3", "P4", "P5", "P6", "P7">>
        /\ \A i \in 1..3 : run.features[i].shape = WithFeatureSize(run.C[i])
        /\ run.features[4].shape =
              <<CeilDiv(run.C[3][1], 2), CeilDiv(run.C[3][2], 2), PyramidFeatureSize>>
        /\ run.features[5].shape =
              <<CeilDiv(run.features[4].shape[1], 2),
                CeilDiv(run.features[4].shape[2], 2), PyramidFeatureSize>>

\* the pyramid of maps of odd sides: C4 is not half of C3, P4 has C4's shape
C18_Witness ==
    /\ run.kind = "Pyramid"
    /\ run.C[1][1] = 3 /\ run.C[1][2] = 3
    /\ run.C[2][1] = 2 /\ run.C[2][2] = 1
    /\ run.C[3][1] = 1 /\ run.C[3][2] = 1
    /\ run.features[1].shape = <<3, 3, PyramidFeatureSize>>
    /\ run.features[2].shape = <<2, 1, PyramidFeatureSize>>

\* the anchors and the rows of output o of the inference model, for the image run
RunAnchors == ConcatAnchors(prediction_model, run.features)
RunOutput(o) == ConcatOutput(prediction_model, o, run.features)

\* the place of the base anchor of anchor a among the base anchors of its layer
BaseIndexOfAnchor(layer, a) ==
    CHOOSE b \in 1..Len(BaseAnchors(layer.ratios, layer.scales)) :
        BaseAnchors(layer.ratios, layer.scales)[b] = [ratio |-> a.ratio, scale |-> a.scale]

\* the place of the base anchor a row of a head speaks of: its channels are the
\* row'th group of the head's channels
BaseIndexOfRow(row) == (row[1].ch \div Len(row)) + 1

\* the anchor layers and the applications of every submodel go through the
\* levels P3..P7 in this order, level i with sizes[i] and strides[i]
SameLevelOrder(pm) ==
    /\ [l \in 1..Len(pm.anchors) |-> pm.anchors[l].feature] = FeatureNames
    /\ \A l \in 1..Len(pm.anchors) :
         /\ pm.anchors[l].size = Req.anchor_parameters.sizes[l]
         /\ pm.anchors[l].stride = Req.anchor_parameters.strides[l]
    /\ \A o \in 1..Len(pm.base.outputs) :
         [l \in 1..Len(pm.base.outputs[o].inputs) |-> pm.base.outputs[o].inputs[l].feature]
            = FeatureNames

\* index j of the anchors and of output o speak of the same level, location and base anchor
SameAnchorAt(o, j) ==
    LET a == RunAnchors[j]
        r == RunOutput(o)[j]
        layer == prediction_model.anchors[CHOOSE l \in 1..NumLevels :
                                             prediction_model.anchors[l].feature = a.level]
    IN /\ a.level = r.level
       /\ a.at.row = r.at[1].row
       /\ a.at.col = r.at[1].col
       /\ BaseIndexOfAnchor(layer, a.at) = BaseIndexOfRow(r.at)

(* C19: the anchors of all levels and the per-level outputs of every         *)
(* submodel are concatenated in the same level order P3..P7 (level i with    *)
(* sizes[i] and strides[i]), so in the inference model the flat anchor       *)
(* sequence and the flat regression and classification sequences have equal  *)
(* length, and index j of each speaks of the same level, location and base   *)
(* anchor; for shared and unshared heads alike.                              *)
C19_AnchorsAndOutputsAligned ==
    pc = "ran" =>
        /\ SameLevelOrder(prediction_model)
        /\ \A o \in 1..2 :
             /\ Len(RunOutput(o)) = Len(RunAnchors)
             /\ \A j \in 1..Len(RunAnchors) : SameAnchorAt(o, j)

(* C19, for the inference models whose heads were built for as many anchors  *)
(* per location as the anchor parameters give: these have the alignment.     *)
C19_AlignedWhenCountsAgree ==
    (/\ pc = "ran"
     /\ prediction_model.base.num_anchors = num_anchors(Req.anchor_parameters))
       => /\ SameLevelOrder(prediction_model)
          /\ \A o \in 1..2 :
               /\ Len(RunOutput(o)) = Len(RunAnchors)
               /\ \A j \in 1..Len(RunAnchors) : SameAnchorAt(o, j)

\* an aligned run with several anchors per location on a map of several locations,
\* the heads not shared
C19_WitnessAligned ==
    /\ pc = "ran"
    /\ prediction_model.base.num_anchors = num_anchors(Req.anchor_parameters)
    /\ num_anchors(Req.anchor_parameters) > 1
    /\ run.features[1][1] * run.features[1][2] > 1
    /\ Len(RunAnchors) > 0
    /\ Len(RunOutput(1)) = Len(RunAnchors)
    /\ Req.kwargs # NoCall
    /\ ~Req.kwargs.share_rpn

\* the anchors per location a head is sized for: its channels over the length of a row
AnchorsPerLocation(submodel) == submodel.filters \div submodel.row

\* the regression and classification heads of base model m, at every level, are
\* sized for k anchors per location
HeadsSizedFor(m, k) ==
    /\ m.num_anchors = k
    /\ \A o \in 1..2 : \A l \in 1..Len(m.outputs[o].inputs) :
         /\ AnchorsPerLocation(m.outputs[o].inputs[l].model) = k
         /\ m.outputs[o].inputs[l].model.filters = k * m.outputs[o].inputs[l].model.row

(* C20: in every inference model retinanet_bbox builds, from keyword         *)
(* arguments with model=None or from a supplied base model with any          *)
(* anchor_parameters, the anchor count per location the regression and       *)
(* classification heads are sized for equals                                 *)
(* anchor_parameters.num_anchors() = len(ratios) * len(scales), at every     *)
(* pyramid level.                                                            *)
C20_HeadsSizedByAnchorParameters ==
    prediction_model.kind = "Model" =>
        HeadsSizedFor(prediction_model.base, num_anchors(Req.anchor_parameters))

(* C20, for the inference models whose base model retinanet_bbox builds      *)
(* itself (model=None): these have their heads sized by the anchor           *)
(* parameters.                                                               *)
C20_SizedWhenBuiltInside ==
    (prediction_model.kind = "Model" /\ Req.model = NoModel) =>
        HeadsSizedFor(prediction_model.base, num_anchors(Req.anchor_parameters))

\* an inference model built from keyword arguments, with four anchors per location
C20_WitnessBuiltInside ==
    /\ prediction_model.kind = "Model"
    /\ Req.model = NoModel
    /\ num_anchors(Req.anchor_parameters) = 4
    /\ prediction_model.base.num_anchors = 4

\* the head configuration the caller of create_models asked for
RequestedHeads(a) ==
    [ submodels            |-> a.submodels,
      share_rpn            |-> a.share_rpn,
      class_feature_sizes  |-> a.class_feature_sizes,
      regr_feature_sizes   |-> a.regr_feature_sizes,
      common_feature_sizes |-> a.common_feature_sizes,
      coordconv            |-> a.coordconv ]

\* the head architecture of base model m: per output, its name and the submodel
\* applied at every level
HeadArchitecture(m) ==
    [o \in 1..Len(m.outputs) |->
        [ name   |-> m.outputs[o].name,
          levels |-> [l \in 1..Len(m.outputs[o].inputs) |-> m.outputs[o].inputs[l].model] ]]

(* C21: the head configuration requested by the caller of create_models      *)
(* (submodels, share_rpn, class_feature_sizes, regr_feature_sizes,           *)
(* common_feature_sizes, coordconv) is passed to the backbone's model        *)
(* constructor on every path, so the base model built with multi_gpu > 1 has *)
(* the same head architecture as the one built with multi_gpu <= 1 for the   *)
(* same arguments.                                                           *)
C21_HeadConfigOnEveryPath ==
    (HasModels /\ Called("create_models")) =>
        \E single \in {backbone_retinanet(run.train_generator.num_classes,
                                          RequestedHeads(Argv))} :
            /\ single.ok
            /\ HeadArchitecture(model) = HeadArchitecture(single.value)

(* C21, for the path multi_gpu <= 1: there the base model has the heads the  *)
(* caller asked for.                                                         *)
C21_HeadConfigOnSinglePath ==
    (HasModels /\ Called("create_models") /\ Argv.multi_gpu <= 1) =>
        \E single \in {backbone_retinanet(run.train_generator.num_classes,
                                          RequestedHeads(Argv))} :
            /\ single.ok
            /\ HeadArchitecture(model) = HeadArchitecture(single.value)

\* joint heads asked for and built, on the path multi_gpu <= 1
C21_WitnessSinglePath ==
    /\ HasModels
    /\ Called("create_models")
    /\ Argv.multi_gpu <= 1
    /\ Argv.submodels = PyStr(Str_joint_submodels)
    /\ HeadArchitecture(model) # HeadArchitecture(RetinaNet(DefaultNumAnchors, RetinaNetDefaults(run.train_generator.num_classes)).value)

=============================================================================
